---- MODULE Spec2Model ----
(***************************************************************************)
(* Model of the meme-chatbot command-line front end                        *)
(* (frontend-cli/src/main.go, lines 1-239): the interactive driver `main`, *)
(* the model I/O worker `modelIoHandler`, the two unbuffered channels      *)
(* between them, and the leaf functions CheckAndFix, SetPrompt, ToJSON,    *)
(* FormatPrompt, ParseResponse and SendPrompt.                             *)
(*                                                                         *)
(* Encodings.                                                              *)
(*  - A float64 is the record [nan |-> BOOLEAN, v |-> Int] where v counts  *)
(*    hundredths (0.95 is Num(95), 1.0 is Num(100)); the code only ever    *)
(*    compares floats with 0 and 1.0.  NaN compares false with everything. *)
(*  - A response body is the record [json, choices]: json says whether the *)
(*    text is syntactically valid JSON, choices lists the elements of its  *)
(*    "choices" array, each with its "text" member and whether that member *)
(*    is a JSON string.                                                    *)
(*  - The strings "nihao" and "hao" stand for the non-ASCII prompt and     *)
(*    completion of the sample exchange.                                   *)
(*  - An unbuffered channel has no state of its own: a send and a receive  *)
(*    complete together, in one action.                                    *)
(***************************************************************************)
EXTENDS Integers, Sequences, FiniteSets, TLC

VARIABLES
    \* main (the interactive driver)
    dpc,                    \* position of main
    user_input,             \* main: user_input
    main_param_with_prompt, \* main: param_with_prompt
    main_response,          \* main: response
    param_template,         \* main: param_template
    \* modelIoHandler (the model I/O worker)
    wpc,                    \* position of modelIoHandler
    param_with_prompt,      \* modelIoHandler: param_with_prompt
    response,               \* modelIoHandler: response (raw body)
    err,                    \* modelIoHandler: err
    model_output,           \* modelIoHandler: model_output
    \* environment
    ctxDone,                \* ctx.Done() is closed
    transport,              \* the HTTP endpoint: real, or a scripted mock
    \* history
    posted,                 \* body of the last HTTP POST
    dequeued,               \* requests received from param_with_prompt_queue
    pushed,                 \* values sent on model_response_queue
    attempts,               \* failed SendPrompt calls for the held request
    \* a parameter record under CheckAndFix
    lgp, lgp_in, lgp_once, calls

vars == << dpc, user_input, main_param_with_prompt, main_response,
           param_template, wpc, param_with_prompt, response, err,
           model_output, ctxDone, transport, posted, dequeued, pushed,
           attempts, lgp, lgp_in, lgp_once, calls >>

driverVars == << dpc, user_input, main_param_with_prompt, main_response,
                 param_template >>
workerVars == << wpc, param_with_prompt, response, err, model_output >>
normVars   == << lgp, lgp_in, lgp_once, calls >>

----------------------------------------------------------------------------
(* Bounds *)

MaxRounds == 2      \* requests the user types in one run
MaxFails  == 2      \* failures a mock transport is scripted to give
MaxCalls  == 2      \* successive CheckAndFix calls on one record

----------------------------------------------------------------------------
(* float64 *)

Num(v) == [nan |-> FALSE, v |-> v]
NaN    == [nan |-> TRUE,  v |-> 0]

\* x <= 0
FLeZero(x) == (~x.nan) /\ x.v <= 0
\* x > 1.0
FGtOne(x)  == (~x.nan) /\ x.v > 100

----------------------------------------------------------------------------
(* LlmGenerationParameters and its methods *)

DefaultTopK == 40
DefaultTopP == 95
DefaultRepeatPenalty == 110
DefaultTemperature == 80
DefaultMaxTokens == 16

CheckAndFix_AddDefault(p) ==
    LET a == IF p.TopK <= 0 THEN [p EXCEPT !.TopK = p.TopK + DefaultTopK] ELSE p
        b == IF FLeZero(a.TopP) \/ FGtOne(a.TopP)
             THEN [a EXCEPT !.TopP = Num(DefaultTopP)] ELSE a
        c == IF FLeZero(b.RepeatPenalty)
             THEN [b EXCEPT !.RepeatPenalty = Num(DefaultRepeatPenalty)] ELSE b
        d == IF FLeZero(c.Temperature)
             THEN [c EXCEPT !.Temperature = Num(DefaultTemperature)] ELSE c
    IN  IF d.MaxTokens <= 0 THEN [d EXCEPT !.MaxTokens = DefaultMaxTokens] ELSE d

CheckAndFix_NoUpperBound(p) ==
    LET a == IF p.TopK <= 0 THEN [p EXCEPT !.TopK = DefaultTopK] ELSE p
        b == IF FLeZero(a.TopP)
             THEN [a EXCEPT !.TopP = Num(DefaultTopP)] ELSE a
        c == IF FLeZero(b.RepeatPenalty)
             THEN [b EXCEPT !.RepeatPenalty = Num(DefaultRepeatPenalty)] ELSE b
        d == IF FLeZero(c.Temperature)
             THEN [c EXCEPT !.Temperature = Num(DefaultTemperature)] ELSE c
    IN  IF d.MaxTokens <= 0 THEN [d EXCEPT !.MaxTokens = DefaultMaxTokens] ELSE d

\* The five checks run in the order of the source; each reads the record the
\* previous one left.
CheckAndFix(p) ==
    LET a == IF p.TopK <= 0 THEN [p EXCEPT !.TopK = DefaultTopK] ELSE p
        b == IF FLeZero(a.TopP) \/ FGtOne(a.TopP)
             THEN [a EXCEPT !.TopP = Num(DefaultTopP)] ELSE a
        c == IF FLeZero(b.RepeatPenalty)
             THEN [b EXCEPT !.RepeatPenalty = Num(DefaultRepeatPenalty)] ELSE b
        d == IF FLeZero(c.Temperature)
             THEN [c EXCEPT !.Temperature = Num(DefaultTemperature)] ELSE c
    IN  IF d.MaxTokens <= 0 THEN [d EXCEPT !.MaxTokens = DefaultMaxTokens] ELSE d

\* Value receiver: the caller's record is not written, a copy is returned.
SetPrompt(p, prompt) == [p EXCEPT !.Prompt = prompt]

\* json.Marshal fails on a NaN float and ToJSON drops the error: the result
\* is then the empty string, here the record [empty |-> TRUE].
EmptyJSON == [empty |-> TRUE]

ToJSON(p) ==
    LET f == CheckAndFix(p)
    IN  IF f.TopP.nan \/ f.RepeatPenalty.nan \/ f.Temperature.nan
        THEN EmptyJSON
        ELSE [model |-> f.ModelName, prompt |-> f.Prompt, top_k |-> f.TopK,
              top_p |-> f.TopP.v, repeat_penalty |-> f.RepeatPenalty.v,
              temperature |-> f.Temperature.v, stream |-> f.Stream,
              max_tokens |-> f.MaxTokens]

CHAT_TEMPLATE_HEAD == "<start_of_turn>user\n"
CHAT_TEMPLATE_TAIL == "<end_of_turn>\n<start_of_turn>model\n"

FormatPrompt(prompt) == CHAT_TEMPLATE_HEAD \o prompt \o CHAT_TEMPLATE_TAIL

----------------------------------------------------------------------------
(* Response bodies and ParseResponse *)

Choice(text, isString) == [text |-> text, isString |-> isString]

SampleResponse  == [json |-> TRUE,  choices |-> << Choice("hao", TRUE) >>]
TwoChoiceBody   == [json |-> TRUE,
                    choices |-> << Choice("first", TRUE), Choice("second", TRUE) >>]
NumericTextBody == [json |-> TRUE,  choices |-> << Choice("5", FALSE) >>]
ErrorBody       == [json |-> TRUE,  choices |-> << >>]
EmptyBody       == [json |-> FALSE, choices |-> << >>]
TruncatedBody   == [json |-> FALSE, choices |-> << Choice("hao", TRUE) >>]

Bodies == { SampleResponse, TwoChoiceBody, NumericTextBody, ErrorBody,
            EmptyBody, TruncatedBody }

\* json.Unmarshal validates the whole text before it stores anything, so a
\* syntax error leaves the zero LlmResponse; a "text" member that is not a
\* string leaves Text at "" and decoding goes on.  The error is dropped.
ParseResponse(body) ==
    [Choices |-> IF body.json
                 THEN [i \in DOMAIN body.choices |->
                          [Text |-> IF body.choices[i].isString
                                    THEN body.choices[i].text ELSE ""]]
                 ELSE << >>]

\* ParseResponse(response).Choices[0].Text panics on an empty slice.
IndexPanics(body) == Len(ParseResponse(body).Choices) = 0

ModelOutput_LastChoice(body) ==
    ParseResponse(body).Choices[Len(ParseResponse(body).Choices)].Text

ModelOutput(body) == ParseResponse(body).Choices[1].Text

----------------------------------------------------------------------------
(* Initial state *)

ParamTemplate ==
    [ModelName |-> "", Prompt |-> "", TopK |-> 64, TopP |-> Num(90),
     RepeatPenalty |-> Num(120), Temperature |-> Num(90), Stream |-> FALSE,
     MaxTokens |-> 32]

ZeroParams ==
    [ModelName |-> "", Prompt |-> "", TopK |-> 0, TopP |-> Num(0),
     RepeatPenalty |-> Num(0), Temperature |-> Num(0), Stream |-> FALSE,
     MaxTokens |-> 0]

Inputs == {"", "hi", "nihao", "exit"}

RealTransport == [mock |-> FALSE, fails |-> 0, body |-> SampleResponse]
MockTransports == [mock : {TRUE}, fails : 0..MaxFails, body : Bodies]

InitPipeline ==
    /\ dpc = "Scan"
    /\ user_input = ""
    /\ main_param_with_prompt = ZeroParams
    /\ main_response = ""
    /\ param_template = ParamTemplate
    /\ wpc = "Select"
    /\ param_with_prompt = ZeroParams
    /\ response = EmptyBody
    /\ err = "nil"
    /\ model_output = ""
    /\ ctxDone = FALSE
    /\ posted = EmptyJSON
    /\ dequeued = 0
    /\ pushed = 0
    /\ attempts = 0

InitNormIdle ==
    /\ lgp = ParamTemplate
    /\ lgp_in = ParamTemplate
    /\ lgp_once = ParamTemplate
    /\ calls = 0

Init == InitPipeline /\ InitNormIdle /\ transport = RealTransport

\* The pipeline as main builds it: ctx is context.Background().
InitMock == InitPipeline /\ InitNormIdle /\ transport \in MockTransports

\* Parameter records handed to CheckAndFix.
ParamRecords ==
    [ModelName : {"", "gpt2"},
     Prompt : {"", "hi"},
     TopK : {-64, -1, 0, 1, 40, 64},
     TopP : {Num(-50), Num(0), Num(1), Num(95), Num(100), Num(101), Num(250), NaN},
     RepeatPenalty : {Num(-110), Num(0), Num(110), Num(120), NaN},
     Temperature : {Num(-80), Num(0), Num(90), NaN},
     Stream : BOOLEAN,
     MaxTokens : {-16, 0, 1, 32}]

\* Templates other than main's literal: what modelIoHandler does with
\* whatever record a sender puts on param_with_prompt_queue.
TemplateRecords ==
    [ModelName : {""},
     Prompt : {""},
     TopK : {-1, 0, 64},
     TopP : {Num(0), Num(90), Num(250), NaN},
     RepeatPenalty : {Num(-110), Num(120)},
     Temperature : {Num(0), Num(90)},
     Stream : {FALSE},
     MaxTokens : {0, 32}]

InitAnyTemplate ==
    /\ dpc = "Scan"
    /\ user_input = ""
    /\ main_param_with_prompt = ZeroParams
    /\ main_response = ""
    /\ param_template \in TemplateRecords
    /\ wpc = "Select"
    /\ param_with_prompt = ZeroParams
    /\ response = EmptyBody
    /\ err = "nil"
    /\ model_output = ""
    /\ ctxDone = FALSE
    /\ posted = EmptyJSON
    /\ dequeued = 0
    /\ pushed = 0
    /\ attempts = 0
    /\ transport = RealTransport
    /\ InitNormIdle

InitNorm ==
    /\ InitPipeline
    /\ transport = RealTransport
    /\ lgp \in ParamRecords
    /\ lgp_in = lgp
    /\ lgp_once = lgp
    /\ calls = 0

----------------------------------------------------------------------------
(* main: the interactive driver *)

DriverScan_PointerSetPrompt ==
    /\ dpc = "Scan"
    /\ dequeued < MaxRounds
    /\ \E in \in Inputs :
          /\ user_input' = in
          /\ param_template' = SetPrompt(param_template, FormatPrompt(in))
          /\ main_param_with_prompt' = SetPrompt(param_template, FormatPrompt(in))
    /\ dpc' = "SendRequest"
    /\ UNCHANGED << main_response, workerVars, ctxDone,
                    transport, posted, dequeued, pushed, attempts, normVars >>

\* fmt.Scanln(&user_input); param_template.SetPrompt(FormatPrompt(user_input)).
\* main then blocks in the send on param_with_prompt_queue.
DriverScan ==
    /\ dpc = "Scan"
    /\ dequeued < MaxRounds
    /\ \E in \in Inputs :
          /\ user_input' = in
          /\ main_param_with_prompt' = SetPrompt(param_template, FormatPrompt(in))
    /\ dpc' = "SendRequest"
    /\ UNCHANGED << main_response, param_template, workerVars, ctxDone,
                    transport, posted, dequeued, pushed, attempts, normVars >>

\* fmt.Println("Model:", response), back to the top of the loop.
DriverPrint ==
    /\ dpc = "Print"
    /\ dpc' = "Scan"
    /\ UNCHANGED << user_input, main_param_with_prompt, main_response,
                    param_template, workerVars, ctxDone, transport, posted,
                    dequeued, pushed, attempts, normVars >>

----------------------------------------------------------------------------
(* The two unbuffered channels *)

\* param_with_prompt_queue: main's send and the worker's receive complete
\* together.  A mock transport is re-armed for the new request.
Handoff ==
    /\ dpc = "SendRequest"
    /\ wpc = "WaitingForRequest"
    /\ param_with_prompt' = main_param_with_prompt
    /\ dpc' = "AwaitResponse"
    /\ wpc' = "Sending"
    /\ dequeued' = dequeued + 1
    /\ attempts' = 0
    /\ IF transport.mock THEN transport' \in MockTransports
                         ELSE transport' = transport
    /\ UNCHANGED << user_input, main_param_with_prompt, main_response,
                    param_template, response, err, model_output, ctxDone,
                    posted, pushed, normVars >>

Deliver_NoBreak ==
    /\ wpc = "Pushing"
    /\ dpc = "AwaitResponse"
    /\ main_response' = model_output
    /\ dpc' = "Print"
    /\ wpc' = "Sending"
    /\ pushed' = pushed + 1
    /\ UNCHANGED << user_input, main_param_with_prompt, param_template,
                    param_with_prompt, response, err, model_output, ctxDone,
                    transport, posted, dequeued, attempts, normVars >>

\* model_response_queue: the worker's send and main's receive complete
\* together; the worker breaks out of the retry loop.
Deliver ==
    /\ wpc = "Pushing"
    /\ dpc = "AwaitResponse"
    /\ main_response' = model_output
    /\ dpc' = "Print"
    /\ wpc' = "Select"
    /\ pushed' = pushed + 1
    /\ UNCHANGED << user_input, main_param_with_prompt, param_template,
                    param_with_prompt, response, err, model_output, ctxDone,
                    transport, posted, dequeued, attempts, normVars >>

----------------------------------------------------------------------------
(* modelIoHandler: the model I/O worker *)

\* select { case <-ctx.Done(): return; default: ... }: a closed ctx.Done()
\* is the only ready case; otherwise the default case runs and the worker
\* blocks in the receive on param_with_prompt_queue.
WorkerSelect ==
    /\ wpc = "Select"
    /\ wpc' = IF ctxDone THEN "Cancelled" ELSE "WaitingForRequest"
    /\ UNCHANGED << driverVars, param_with_prompt, response, err,
                    model_output, ctxDone, transport, posted, dequeued,
                    pushed, attempts, normVars >>

Min(a, b) == IF a < b THEN a ELSE b

SendPromptFails_GiveUp ==
    /\ wpc = "Sending"
    /\ transport.mock => transport.fails > 0
    /\ \E e \in {"connect", "read"} : err' = e
    /\ response' = EmptyBody
    /\ posted' = ToJSON(param_with_prompt)
    /\ attempts' = Min(attempts + 1, MaxFails)
    /\ transport' = IF transport.mock
                    THEN [transport EXCEPT !.fails = transport.fails - 1]
                    ELSE transport
    /\ model_output' = ""
    /\ wpc' = "Pushing"
    /\ UNCHANGED << driverVars, param_with_prompt, ctxDone,
                    dequeued, pushed, normVars >>

SendPromptFails_ByReference ==
    /\ wpc = "Sending"
    /\ transport.mock => transport.fails > 0
    /\ \E e \in {"connect", "read"} : err' = e
    /\ response' = EmptyBody
    /\ posted' = ToJSON(param_with_prompt)
    /\ param_with_prompt' = CheckAndFix(param_with_prompt)
    /\ attempts' = Min(attempts + 1, MaxFails)
    /\ transport' = IF transport.mock
                    THEN [transport EXCEPT !.fails = transport.fails - 1]
                    ELSE transport
    /\ wpc' = "BackoffSleep"
    /\ UNCHANGED << driverVars, model_output, ctxDone,
                    dequeued, pushed, normVars >>

SendPromptFails_Break ==
    /\ wpc = "Sending"
    /\ transport.mock => transport.fails > 0
    /\ \E e \in {"connect", "read"} : err' = e
    /\ response' = EmptyBody
    /\ posted' = ToJSON(param_with_prompt)
    /\ attempts' = Min(attempts + 1, MaxFails)
    /\ transport' = IF transport.mock
                    THEN [transport EXCEPT !.fails = transport.fails - 1]
                    ELSE transport
    /\ wpc' = "Select"
    /\ UNCHANGED << driverVars, param_with_prompt, model_output, ctxDone,
                    dequeued, pushed, normVars >>

\* SendPrompt returns ("", err): http.Post failed ("connect") or io.ReadAll
\* failed ("read").  The worker logs err and starts time.Sleep(1s).
\* SendPrompt works on its own copy of the record, so ToJSON's CheckAndFix
\* does not write the worker's param_with_prompt.
SendPromptFails ==
    /\ wpc = "Sending"
    /\ transport.mock => transport.fails > 0
    /\ \E e \in {"connect", "read"} : err' = e
    /\ response' = EmptyBody
    /\ posted' = ToJSON(param_with_prompt)
    /\ attempts' = Min(attempts + 1, MaxFails)
    /\ transport' = IF transport.mock
                    THEN [transport EXCEPT !.fails = transport.fails - 1]
                    ELSE transport
    /\ wpc' = "BackoffSleep"
    /\ UNCHANGED << driverVars, param_with_prompt, model_output, ctxDone,
                    dequeued, pushed, normVars >>

\* SendPrompt returns (body, nil).  The worker then evaluates
\* ParseResponse(response).Choices[0].Text: with no choice the index
\* expression panics and the panic, recovered nowhere, ends the process,
\* main included; otherwise the worker blocks in the send on
\* model_response_queue.
SendPromptSucceeds ==
    /\ wpc = "Sending"
    /\ \E body \in Bodies :
          /\ transport.mock => (transport.fails = 0 /\ body = transport.body)
          /\ response' = body
          /\ IF IndexPanics(body)
             THEN /\ wpc' = "Panicked"
                  /\ dpc' = "Crashed"
                  /\ model_output' = model_output
             ELSE /\ wpc' = "Pushing"
                  /\ dpc' = dpc
                  /\ model_output' = ModelOutput(body)
    /\ err' = "nil"
    /\ posted' = ToJSON(param_with_prompt)
    /\ UNCHANGED << user_input, main_param_with_prompt, main_response,
                    param_template, param_with_prompt, ctxDone, transport,
                    dequeued, pushed, attempts, normVars >>

BackoffWake_Restart ==
    /\ wpc = "BackoffSleep"
    /\ wpc' = "Select"
    /\ UNCHANGED << driverVars, param_with_prompt, response, err,
                    model_output, ctxDone, transport, posted, dequeued,
                    pushed, attempts, normVars >>

BackoffWake_MaxAttempts ==
    /\ wpc = "BackoffSleep"
    /\ wpc' = IF attempts >= 2 THEN "Select" ELSE "Sending"
    /\ UNCHANGED << driverVars, param_with_prompt, response, err,
                    model_output, ctxDone, transport, posted, dequeued,
                    pushed, attempts, normVars >>

\* time.Sleep returns; `continue` restarts the inner loop, which calls
\* SendPrompt again without looking at ctx.
BackoffWake ==
    /\ wpc = "BackoffSleep"
    /\ wpc' = "Sending"
    /\ UNCHANGED << driverVars, param_with_prompt, response, err,
                    model_output, ctxDone, transport, posted, dequeued,
                    pushed, attempts, normVars >>

----------------------------------------------------------------------------
(* Environment of modelIoHandler: the owner of ctx cancels it *)

Cancel ==
    /\ ~ctxDone
    /\ ctxDone' = TRUE
    /\ UNCHANGED << driverVars, workerVars, transport, posted, dequeued,
                    pushed, attempts, normVars >>

----------------------------------------------------------------------------
(* CheckAndFix applied to an arbitrary record *)

CallCheckAndFix ==
    /\ calls < MaxCalls
    /\ lgp' = CheckAndFix(lgp)
    /\ lgp_once' = IF calls = 0 THEN CheckAndFix(lgp) ELSE lgp_once
    /\ calls' = calls + 1
    /\ UNCHANGED << driverVars, workerVars, ctxDone, transport, posted,
                    dequeued, pushed, attempts, lgp_in >>

----------------------------------------------------------------------------
(* Specifications *)

Next ==
    \/ DriverScan
    \/ Handoff
    \/ Deliver
    \/ DriverPrint
    \/ WorkerSelect
    \/ SendPromptFails
    \/ SendPromptSucceeds
    \/ BackoffWake

NextCtx == Next \/ Cancel

NextNorm == CallCheckAndFix

\* Every step of the program is eventually taken when it stays possible;
\* nothing obliges the user to type a line (DriverScan) or the owner of ctx
\* to cancel it.
Fairness ==
    /\ WF_vars(Handoff)
    /\ WF_vars(Deliver)
    /\ WF_vars(DriverPrint)
    /\ WF_vars(WorkerSelect)
    /\ WF_vars(SendPromptFails)
    /\ WF_vars(SendPromptSucceeds)
    /\ WF_vars(BackoffWake)

\* main and modelIoHandler as main starts them.
Spec == Init /\ [][Next]_vars

\* The same pipeline against a mock transport that, for each request, fails
\* a scripted number of times and then returns a scripted body.
SpecMock == InitMock /\ [][Next]_vars /\ Fairness

\* modelIoHandler under a ctx that its owner may cancel.
SpecCtx == Init /\ [][NextCtx]_vars /\ Fairness

\* The pipeline started from an arbitrary template.
SpecAnyTemplate == InitAnyTemplate /\ [][Next]_vars

\* CheckAndFix on arbitrary records.
SpecNorm == InitNorm /\ [][NextNorm]_vars

----------------------------------------------------------------------------
(* Properties *)

C2_Alternation ==
    /\ [][dequeued' # dequeued =>
            (wpc = "WaitingForRequest" /\ pushed = dequeued)]_vars
    /\ [](wpc \in {"Select", "WaitingForRequest"} => pushed = dequeued)
    /\ [][dequeued' = dequeued => param_with_prompt' = param_with_prompt]_vars

\* main is blocked pushing the second request after a first exchange in
\* which an attempt failed; the worker has not reached its receive yet.
C2_Witness ==
    /\ dpc = "SendRequest" /\ wpc = "Select"
    /\ dequeued = 1 /\ pushed = 1 /\ attempts >= 1

\* C3 (Spec).  A successful SendPrompt whose body decodes to no choice makes
\* the worker send "" on model_response_queue; nothing ends the process.
C3_EmptyChoicesSentinel ==
    [][(/\ wpc = "Sending"
        /\ wpc' \notin {"Sending", "BackoffSleep"}
        /\ Len(ParseResponse(response').Choices) = 0)
          => (wpc' = "Pushing" /\ model_output' = "" /\ dpc' = dpc)]_vars

\* C4 (SpecCtx).  Cancellation while the worker is blocked in the receive
\* leads to the worker's exit.
C4_CancelWhileWaiting ==
    (ctxDone /\ wpc = "WaitingForRequest") ~> (wpc = "Cancelled")

\* C5 (Spec).  Reading "exit" makes main cancel ctx and terminate, and no
\* request is handed to the worker for that input.
C5_ExitCancels ==
    /\ [][(dpc = "Scan" /\ dpc' # "Scan" /\ user_input' = "exit")
            => (ctxDone' /\ dpc' = "Exited")]_vars
    /\ [][dequeued' # dequeued => user_input # "exit"]_vars

\* C6 (Spec).  The worker or main has terminated only if ctx was cancelled.
C6_OnlyCancellationTerminates ==
    (wpc \in {"Cancelled", "Panicked"} \/ dpc \in {"Crashed", "Exited"})
        => ctxDone

\* C7 (Spec).  The value main reads from model_response_queue is the text of
\* the first choice of the body the transport returned, without error, to
\* the POST that carried the formatted text of main's current input.
C7_EndToEndMatching ==
    [][pushed' # pushed =>
         /\ err = "nil"
         /\ Len(ParseResponse(response).Choices) > 0
         /\ main_response' = Head(ParseResponse(response).Choices).Text
         /\ posted # EmptyJSON
         /\ posted.prompt = FormatPrompt(user_input)]_vars

\* The sample exchange: input "nihao", sample body, output "hao".
C7_Witness ==
    /\ dpc = "Print" /\ user_input = "nihao"
    /\ response = SampleResponse /\ main_response = "hao"

\* C8 (SpecCtx).  Once ctx is cancelled, a worker in its backoff sleep
\* leaves the sleep only to exit: it does not start another attempt.
C8_CancelBoundedByBackoff ==
    [][(ctxDone /\ wpc = "BackoffSleep")
          => wpc' \in {"BackoffSleep", "Cancelled"}]_vars

\* The claim's words for "this field is replaced".
IsZeroOrNegative(x) == (~x.nan) /\ (x.v = 0 \/ x.v < 0)
IsAboveOne(x) == (~x.nan) /\ x.v > 100

\* C9 (SpecNorm).  After one CheckAndFix each numeric field that was 0,
\* negative or (top-p) above 1.0 holds its default, every other numeric
\* field holds its old value, and ModelName, Prompt and Stream are unchanged.
C9_CheckAndFixDefaults ==
    calls >= 1 =>
      /\ lgp_once.TopK = IF lgp_in.TopK = 0 \/ lgp_in.TopK < 0
                         THEN 40 ELSE lgp_in.TopK
      /\ lgp_once.TopP = IF IsZeroOrNegative(lgp_in.TopP) \/ IsAboveOne(lgp_in.TopP)
                         THEN Num(95) ELSE lgp_in.TopP
      /\ lgp_once.RepeatPenalty = IF IsZeroOrNegative(lgp_in.RepeatPenalty)
                                  THEN Num(110) ELSE lgp_in.RepeatPenalty
      /\ lgp_once.Temperature = IF IsZeroOrNegative(lgp_in.Temperature)
                                THEN Num(80) ELSE lgp_in.Temperature
      /\ lgp_once.MaxTokens = IF lgp_in.MaxTokens = 0 \/ lgp_in.MaxTokens < 0
                              THEN 16 ELSE lgp_in.MaxTokens
      /\ lgp_once.ModelName = lgp_in.ModelName
      /\ lgp_once.Prompt = lgp_in.Prompt
      /\ lgp_once.Stream = lgp_in.Stream

\* A record with top-p 2.5, top-k 0 and max-tokens -16 and a valid
\* temperature and repeat-penalty, after CheckAndFix.
C9_Witness ==
    /\ calls >= 1
    /\ lgp_in.TopP = Num(250) /\ lgp_once.TopP = Num(95)
    /\ lgp_in.TopK = 0 /\ lgp_once.TopK = 40
    /\ lgp_in.MaxTokens = -16 /\ lgp_once.MaxTokens = 16
    /\ lgp_in.Temperature = Num(90) /\ lgp_once.Temperature = Num(90)
    /\ lgp_in.RepeatPenalty = Num(120) /\ lgp_once.RepeatPenalty = Num(120)
    /\ lgp_in.ModelName = "gpt2" /\ lgp_in.Stream

\* C10 (SpecNorm).  A second CheckAndFix leaves the record the first gave.
C10_Idempotent == calls >= 2 => lgp = lgp_once

\* Two calls on a record whose top-k -64 the first call replaced.
C10_Witness ==
    /\ calls = 2
    /\ lgp_in.TopK = -64 /\ lgp_once.TopK = 40 /\ lgp = lgp_once

\* C11 (Spec).  A failed attempt only starts the backoff sleep and the
\* sleep only ends in another attempt, however many attempts have failed;
\* neither sends anything on model_response_queue, and main stays blocked in
\* its receive all the while.
C11_UnboundedRetry ==
    /\ [][(wpc = "Sending" /\ wpc' # "Sending" /\ err' # "nil")
            => (/\ wpc' = "BackoffSleep"
                /\ pushed' = pushed
                /\ main_response' = main_response
                /\ dpc' = "AwaitResponse")]_vars
    /\ [][wpc = "BackoffSleep"
            => (/\ wpc' \in {"BackoffSleep", "Sending"}
                /\ pushed' = pushed
                /\ dpc' = "AwaitResponse")]_vars
    /\ [](wpc \in {"Sending", "BackoffSleep"} => dpc = "AwaitResponse")

\* A third attempt is under way after two failures; main still waits.
C11_Witness ==
    /\ wpc = "Sending" /\ attempts = 2 /\ err # "nil"
    /\ dpc = "AwaitResponse" /\ pushed = dequeued - 1

\* C12 (SpecAnyTemplate).  While the worker holds a request it receives no
\* other, the record it holds is the one main sent and no attempt changes
\* it, and each retry posts the same body as the attempt before.
C12_SameRequestEveryAttempt ==
    /\ [][(wpc \in {"Sending", "BackoffSleep", "Pushing"})
            => (/\ dequeued' = dequeued
                /\ param_with_prompt' = param_with_prompt)]_vars
    /\ [](wpc \in {"Sending", "BackoffSleep", "Pushing"}
            => param_with_prompt = main_param_with_prompt)
    /\ [][(wpc = "Sending" /\ wpc' # "Sending" /\ attempts > 0)
            => posted' = posted]_vars

\* Two failed attempts on a record with top-k 0: the body posted carried the
\* default, the record held still has 0.
C12_Witness ==
    /\ wpc = "Sending" /\ attempts = 2
    /\ param_with_prompt.TopK = 0
    /\ param_with_prompt.Prompt = FormatPrompt("hi")
    /\ posted # EmptyJSON /\ posted.top_k = 40

\* C13 (SpecAnyTemplate).  After any attempt the body that was posted has
\* top_k > 0, 0 < top_p <= 1, repeat_penalty > 0, temperature > 0 and
\* max_tokens > 0.
C13_PayloadNormalized ==
    wpc \in {"BackoffSleep", "Pushing", "Panicked"} =>
      /\ posted # EmptyJSON
      /\ posted.top_k > 0
      /\ posted.top_p > 0 /\ posted.top_p <= 100
      /\ posted.repeat_penalty > 0
      /\ posted.temperature > 0
      /\ posted.max_tokens > 0

\* C14 (Spec).  The responses sent number the requests received, or one
\* less: one less exactly while the worker holds a request, equal whenever
\* it is about to receive.
C14_OneResponsePerRequest ==
    /\ pushed \in {dequeued, dequeued - 1}
    /\ wpc \in {"Select", "WaitingForRequest"} => pushed = dequeued
    /\ wpc \in {"Sending", "BackoffSleep", "Pushing"} => pushed = dequeued - 1

\* The second request, after two failed attempts, is about to be answered.
C14_Witness ==
    /\ wpc = "Pushing" /\ attempts = 2
    /\ dequeued = 2 /\ pushed = 1

\* main or the worker is blocked in a channel operation.
DriverBlockedOnChannel == dpc \in {"SendRequest", "AwaitResponse"}
WorkerBlockedOnChannel == wpc \in {"WaitingForRequest", "Pushing"}

\* C15 (Spec).  main and the worker are never both blocked in channel
\* operations that do not match: whenever both are blocked, main sends
\* while the worker receives, or the worker sends while main receives.
C15_NoChannelDeadlock ==
    (DriverBlockedOnChannel /\ WorkerBlockedOnChannel) =>
       \/ (dpc = "SendRequest" /\ wpc = "WaitingForRequest")
       \/ (dpc = "AwaitResponse" /\ wpc = "Pushing")

\* Both are blocked, on the two ends of model_response_queue, in the second
\* exchange.
C15_Witness ==
    /\ dpc = "AwaitResponse" /\ wpc = "Pushing"
    /\ dequeued = 2 /\ user_input = "hi"

\* C16 (Spec).  The template keeps the values of main's literal, its prompt
\* empty, and the request main built holds the formatted text of the
\* current input and the template's other fields.
C16_TemplateUnchanged ==
    /\ param_template = ParamTemplate
    /\ param_template.Prompt = ""
    /\ dpc # "Scan" \/ dequeued > 0 =>
          /\ main_param_with_prompt.Prompt = FormatPrompt(user_input)
          /\ main_param_with_prompt.TopK = 64
          /\ main_param_with_prompt.TopP = Num(90)
          /\ main_param_with_prompt.RepeatPenalty = Num(120)
          /\ main_param_with_prompt.Temperature = Num(90)
          /\ main_param_with_prompt.MaxTokens = 32

\* The second request is built, after a first exchange went through.
C16_Witness ==
    /\ dpc = "SendRequest" /\ pushed = 1
    /\ user_input = "nihao"
    /\ main_param_with_prompt.Prompt = FormatPrompt("nihao")

====
